---------------------------- MODULE Spec2Model ----------------------------
(***************************************************************************)
(* A model of masp_primitives' transaction layer:                          *)
(*   - the wire codec of transaction/mod.rs (Transaction::read, ::write,   *)
(*     ::from_data, TransactionData::header / ::freeze), and               *)
(*   - the transaction builder of transaction/builder.rs.                  *)
(*                                                                         *)
(* Integers of TLC are 32-bit signed, so a u32 is kept as the pair         *)
(* <<hi, lo>> of its 16-bit halves and serialized little-endian from       *)
(* there: bit 31 of the u32 is bit 15 of hi.                               *)
(***************************************************************************)
EXTENDS Integers, Sequences, FiniteSets, TLC

(***************************************************************************)
(* Bounds of the model.                                                    *)
(***************************************************************************)
\* longest vector (vin, vout, spends, converts, outputs, joinsplits) drawn
MaxVec == 1
\* the reader is also fed the written bytes with one byte in 1..MaxTamperPos replaced
MaxTamperPos == 8
\* most items (coins, outputs, spends, converts) one builder accumulates
MaxItems == 2

(***************************************************************************)
(* Option<T>: None is the empty sequence, Some(x) the one-element one.     *)
(***************************************************************************)
None == <<>>
Some(x) == <<x>>
IsSome(o) == o /= <<>>

(***************************************************************************)
(* u32 values and their little-endian encoding (byteorder::LittleEndian).  *)
(***************************************************************************)
U32(n) == <<n \div 65536, n % 65536>>
EncU32(u) == <<u[2] % 256, u[2] \div 256, u[1] % 256, u[1] \div 256>>
DecU32(s) == <<s[3] + 256 * s[4], s[1] + 256 * s[2]>>
\* u >= n for a u32 u and a small number n (n < 65536)
U32Ge(u, n) == u[1] > 0 \/ u[2] >= n

OVERWINTER_VERSION_GROUP_ID == <<964, 33392>>   \* 0x03C4_8270
OVERWINTER_TX_VERSION == 3
SAPLING_VERSION_GROUP_ID == <<35119, 8325>>     \* 0x892F_2085
SAPLING_TX_VERSION == 4

\* [u8; 32] and [u8; 64] (joinsplit_pubkey, joinsplit_sig)
PUBKEY_LEN == 32
JSSIG_LEN == 64
\* redjubjub::Signature: rbar and sbar, 32 bytes each
BINDING_SIG_LEN == 64

ByteArray(len, b) == [i \in 1..len |-> b]

(***************************************************************************)
(* Results of the fallible operations (io::Result).                        *)
(***************************************************************************)
IoOk(v) == [ok |-> TRUE, kind |-> "", msg |-> "", val |-> v]
IoErr(k, m) == [ok |-> FALSE, kind |-> k, msg |-> m, val |-> <<>>]
InvalidInput(m) == IoErr("InvalidInput", m)
UnexpectedEof == IoErr("UnexpectedEof", "failed to fill whole buffer")

(***************************************************************************)
(* The component codecs (crate::serialize::Vector, TxIn, TxOut, Amount,    *)
(* the descriptions, Signature).  A description is one opaque byte on the  *)
(* wire; a vector is the Bitcoin CompactSize count followed by its         *)
(* elements.  A reader returns [ok, kind, msg, val, rest].                 *)
(***************************************************************************)
RdOk(v, rest) == [ok |-> TRUE, kind |-> "", msg |-> "", val |-> v, rest |-> rest]
RdErr(e) == [ok |-> FALSE, kind |-> e.kind, msg |-> e.msg, val |-> <<>>, rest |-> <<>>]
Drop(s, n) == SubSeq(s, n + 1, Len(s))

ReadBytes(s, n) ==
    IF Len(s) < n THEN RdErr(UnexpectedEof) ELSE RdOk(SubSeq(s, 1, n), Drop(s, n))

ReadU32(s) ==
    IF Len(s) < 4 THEN RdErr(UnexpectedEof) ELSE RdOk(DecU32(s), Drop(s, 4))

\* CompactSize: one byte below 253; 253, 254, 255 announce a 2-, 4-, 8-byte
\* count, which must not fit the shorter form
CompactSizeRead(s) ==
    IF Len(s) < 1 THEN RdErr(UnexpectedEof)
    ELSE IF s[1] < 253 THEN RdOk(s[1], Drop(s, 1))
    ELSE IF s[1] = 253
         THEN IF Len(s) < 3 THEN RdErr(UnexpectedEof)
              ELSE LET n == s[2] + 256 * s[3]
                   IN IF n < 253 THEN RdErr(InvalidInput("non-canonical CompactSize"))
                      ELSE RdOk(n, Drop(s, 3))
    ELSE LET w == IF s[1] = 254 THEN 4 ELSE 8
         IN IF Len(s) < 1 + w THEN RdErr(UnexpectedEof)
            ELSE IF \A i \in (IF w = 4 THEN 4..5 ELSE 6..9) : s[i] = 0
                 THEN RdErr(InvalidInput("non-canonical CompactSize"))
                 ELSE RdErr(UnexpectedEof)   \* more elements than the buffer has bytes

CompactSizeWrite(n) == <<n>>   \* n < 253 in every vector of the model

VectorWrite(v) == CompactSizeWrite(Len(v)) \o v

VectorRead(s) ==
    LET c == CompactSizeRead(s)
    IN IF ~c.ok THEN c
       ELSE IF Len(c.rest) < c.val THEN RdErr(UnexpectedEof)
       ELSE RdOk(SubSeq(c.rest, 1, c.val), Drop(c.rest, c.val))

\* Amount: one byte on the wire
AmountWrite(a) == <<a>>
AmountRead(s) ==
    IF Len(s) < 1 THEN RdErr(UnexpectedEof) ELSE RdOk(s[1], Drop(s, 1))
AmountZero == 0

(***************************************************************************)
(* TransactionData and its header.                                         *)
(***************************************************************************)
TransactionData(ow, ver, vgid, vin, vout, lt, eh, vb, ss, sc, so, js, jpk, jsig, bsig) ==
    [overwintered |-> ow, version |-> ver, version_group_id |-> vgid,
     vin |-> vin, vout |-> vout, lock_time |-> lt, expiry_height |-> eh,
     value_balance |-> vb, shielded_spends |-> ss, shielded_converts |-> sc,
     shielded_outputs |-> so, joinsplits |-> js, joinsplit_pubkey |-> jpk,
     joinsplit_sig |-> jsig, binding_sig |-> bsig]

\* header |= 1 << 31
SetBit31(u) == IF u[1] >= 32768 THEN u ELSE <<u[1] + 32768, u[2]>>

\* a header that leaves the flag out
header_without_flag(t) == t.version

header(t) == IF t.overwintered THEN SetBit31(t.version) ELSE t.version

is_overwinter_v3(ow, vgid, ver) ==
    ow /\ vgid = OVERWINTER_VERSION_GROUP_ID /\ ver = U32(OVERWINTER_TX_VERSION)

is_sapling_v4(ow, vgid, ver) ==
    ow /\ vgid = SAPLING_VERSION_GROUP_ID /\ ver = U32(SAPLING_TX_VERSION)


(***************************************************************************)
(* Transaction::write.  The result carries the bytes written; an error     *)
(* returns at the place the code returns.                                  *)
(***************************************************************************)
\* a writer that looks at the group id alone
write_unknown_format_by_group_id(t, v3, v4) ==
    t.overwintered /\ t.version_group_id \notin {OVERWINTER_VERSION_GROUP_ID,
                                                SAPLING_VERSION_GROUP_ID}

write_unknown_format(t, v3, v4) == t.overwintered /\ ~(v3 \/ v4)

\* a writer that keeps the expiry height for sapling-v4 alone
write_has_expiry_sapling_only(v3, v4) == v4

write_has_expiry(v3, v4) == v3 \/ v4

\* a writer that forgets the version when it looks for stray joinsplit keys
write_no_joinsplit_keys_any_version(t) == t.joinsplits = <<>>

write_no_joinsplit_keys(t) == ~U32Ge(t.version, 2) \/ t.joinsplits = <<>>

\* a writer that asks for the binding signature for spends alone
write_expects_binding_sig_spends_only(t, v4) == v4 /\ t.shielded_spends /= <<>>

\* a writer that asks for the binding signature for outputs alone
write_expects_binding_sig_outputs_only(t, v4) == v4 /\ t.shielded_outputs /= <<>>

write_expects_binding_sig(t, v4) ==
    v4 /\ ~(t.shielded_spends = <<>> /\ t.shielded_outputs = <<>>)

write_joinsplits(t) ==
    IF U32Ge(t.version, 2)
    THEN IF t.joinsplits /= <<>>
         THEN IF ~IsSome(t.joinsplit_pubkey) THEN InvalidInput("Missing JoinSplit pubkey")
              ELSE IF ~IsSome(t.joinsplit_sig)
                   THEN InvalidInput("Missing JoinSplit signature")
                   ELSE IoOk(VectorWrite(t.joinsplits) \o t.joinsplit_pubkey[1]
                             \o t.joinsplit_sig[1])
         ELSE IoOk(VectorWrite(t.joinsplits))
    ELSE IoOk(<<>>)

write_binding_sig(t, v4) ==
    IF write_expects_binding_sig(t, v4)
    THEN IF IsSome(t.binding_sig) THEN IoOk(t.binding_sig[1])
         ELSE InvalidInput("Missing binding signature")
    ELSE IF IsSome(t.binding_sig)
         THEN InvalidInput("Binding signature should not be present")
         ELSE IoOk(<<>>)

write(t) ==
    LET v3 == is_overwinter_v3(t.overwintered, t.version_group_id, t.version)
        v4 == is_sapling_v4(t.overwintered, t.version_group_id, t.version)
        head == EncU32(header(t))
                  \o (IF t.overwintered THEN EncU32(t.version_group_id) ELSE <<>>)
        body == VectorWrite(t.vin) \o VectorWrite(t.vout) \o EncU32(t.lock_time)
                  \o (IF write_has_expiry(v3, v4) THEN EncU32(t.expiry_height) ELSE <<>>)
                  \o (IF v4 THEN AmountWrite(t.value_balance)
                                   \o VectorWrite(t.shielded_spends)
                                   \o VectorWrite(t.shielded_converts)
                                   \o VectorWrite(t.shielded_outputs)
                           ELSE <<>>)
        js == write_joinsplits(t)
        bs == write_binding_sig(t, v4)
    IN IF write_unknown_format(t, v3, v4) THEN InvalidInput("Unknown transaction format")
       ELSE IF ~js.ok THEN js
       ELSE IF write_no_joinsplit_keys(t) /\ IsSome(t.joinsplit_pubkey)
            THEN InvalidInput("JoinSplit pubkey should not be present")
       ELSE IF write_no_joinsplit_keys(t) /\ IsSome(t.joinsplit_sig)
            THEN InvalidInput("JoinSplit signature should not be present")
       ELSE IF ~bs.ok THEN bs
       ELSE IoOk(head \o body \o js.val \o bs.val)

(***************************************************************************)
(* Transaction::from_data and TransactionData::freeze.  SHA-256d is taken  *)
(* as collision-free: a txid is the tagged serialization it hashes.        *)
(***************************************************************************)
Sha256d(raw) == <<"sha256d", raw>>

from_data(t) ==
    LET raw == write(t)
    IN IF ~raw.ok THEN raw ELSE IoOk([txid |-> Sha256d(raw.val), data |-> t])

freeze(t) == from_data(t)

(***************************************************************************)
(* Transaction::read.                                                      *)
(***************************************************************************)
read_unknown_format(ow, v3, v4) == ow /\ ~(v3 \/ v4)

read_has_expiry(v3, v4) == v3 \/ v4

read_expects_binding_sig(v4, ss, so) == v4 /\ ~(ss = <<>> /\ so = <<>>)

\* a reader that takes the Sapling group id for a header without the flag
read_vgid_default_sapling(ow, s) ==
    IF ow THEN ReadU32(s) ELSE RdOk(SAPLING_VERSION_GROUP_ID, s)

\* vgid: read when overwintered, else 0
read_vgid(ow, s) == IF ow THEN ReadU32(s) ELSE RdOk(U32(0), s)

read_expiry(v3, v4, s) == IF read_has_expiry(v3, v4) THEN ReadU32(s) ELSE RdOk(U32(0), s)

\* `?` on a reader's result: the error returns, the value goes on
AndThen(r, K(_)) == IF ~r.ok THEN r ELSE K(r)

\* (value_balance, spends, converts, outputs)
read_sapling(v4, s) ==
    IF ~v4 THEN RdOk(<<AmountZero, <<>>, <<>>, <<>>>>, s)
    ELSE AndThen(AmountRead(s), LAMBDA vb :
         AndThen(VectorRead(vb.rest), LAMBDA ss :
         AndThen(VectorRead(ss.rest), LAMBDA sc :
         AndThen(VectorRead(sc.rest), LAMBDA so :
         RdOk(<<vb.val, ss.val, sc.val, so.val>>, so.rest)))))

\* the pubkey and the signature that follow a non-empty joinsplits vector
read_joinsplit_keys(jss) ==
    IF jss.val = <<>> THEN RdOk(<<<<>>, None, None>>, jss.rest)
    ELSE AndThen(ReadBytes(jss.rest, PUBKEY_LEN), LAMBDA pk :
         AndThen(ReadBytes(pk.rest, JSSIG_LEN), LAMBDA sig :
         RdOk(<<jss.val, Some(pk.val), Some(sig.val)>>, sig.rest)))

\* (joinsplits, joinsplit_pubkey, joinsplit_sig)
read_joinsplits(ver, s) ==
    IF ~U32Ge(ver, 2) THEN RdOk(<<<<>>, None, None>>, s)
    ELSE AndThen(VectorRead(s), read_joinsplit_keys)

read_binding_sig(v4, ss, so, s) ==
    IF read_expects_binding_sig(v4, ss, so)
    THEN AndThen(ReadBytes(s, BINDING_SIG_LEN), LAMBDA sig : RdOk(Some(sig.val), sig.rest))
    ELSE RdOk(None, s)

read_body(ow, ver, vgid, v3, v4, s) ==
    AndThen(VectorRead(s), LAMBDA vin :
    AndThen(VectorRead(vin.rest), LAMBDA vout :
    AndThen(ReadU32(vout.rest), LAMBDA lt :
    AndThen(read_expiry(v3, v4, lt.rest), LAMBDA eh :
    AndThen(read_sapling(v4, eh.rest), LAMBDA sap :
    AndThen(read_joinsplits(ver, sap.rest), LAMBDA js :
    AndThen(read_binding_sig(v4, sap.val[2], sap.val[4], js.rest), LAMBDA bs :
    RdOk(TransactionData(ow, ver, vgid, vin.val, vout.val, lt.val, eh.val,
                         sap.val[1], sap.val[2], sap.val[3], sap.val[4],
                         js.val[1], js.val[2], js.val[3], bs.val), bs.rest))))))))

\* the header is read; the rest follows from it
read_versioned(overwintered, version, s) ==
    AndThen(read_vgid(overwintered, s), LAMBDA g :
        IF read_unknown_format(overwintered,
                               is_overwinter_v3(overwintered, g.val, version),
                               is_sapling_v4(overwintered, g.val, version))
        THEN RdErr(InvalidInput("Unknown transaction format"))
        ELSE read_body(overwintered, version, g.val,
                       is_overwinter_v3(overwintered, g.val, version),
                       is_sapling_v4(overwintered, g.val, version), g.rest))

\* overwintered = (header >> 31) == 1
header_overwintered(h) == h[1] >= 32768

\* version = header & 0x7FFFFFFF
header_version(h) == <<h[1] % 32768, h[2]>>

read_data(s) ==
    AndThen(ReadU32(s), LAMBDA h :
        read_versioned(header_overwintered(h.val), header_version(h.val), h.rest))

ToIoResult(r) == IF r.ok THEN from_data(r.val) ELSE IoErr(r.kind, r.msg)

read(s) == ToIoResult(read_data(s))

(***************************************************************************)
(* Amount: a signed value per asset.  MAX_MONEY is 2^63 - 1 in the         *)
(* library; the model scales it down to a value TLC can count to, and      *)
(* every comparison with it is relative.                                   *)
(***************************************************************************)
MAX_MONEY == 3
Assets == {"ZEC", "BTC"}

Amount_zero == [a \in Assets |-> 0]
Amount_from_pair(asset, v) == [a \in Assets |-> IF a = asset THEN v ELSE 0]
Amount_add(x, y) == [a \in Assets |-> x[a] + y[a]]
Amount_sub(x, y) == [a \in Assets |-> x[a] - y[a]]
Amount_neg(x) == [a \in Assets |-> 0 - x[a]]
Amount_scale(x, k) == [a \in Assets |-> k * x[a]]
\* every per-asset magnitude is within MAX_MONEY
Amount_in_range(x) == \A a \in Assets : x[a] <= MAX_MONEY /\ x[a] >= 0 - MAX_MONEY

RECURSIVE Amount_sum(_)
Amount_sum(s) == IF s = <<>> THEN Amount_zero ELSE Amount_add(Head(s), Amount_sum(Tail(s)))

MapSeq(s, Op(_)) == [i \in 1..Len(s) |-> Op(s[i])]

(***************************************************************************)
(* Results of the builder's operations.                                    *)
(***************************************************************************)
Ok == [ok |-> TRUE, err |-> ""]
Err(e) == [ok |-> FALSE, err |-> e]

(***************************************************************************)
(* TransparentBuilder (components::transparent::builder).                  *)
(***************************************************************************)
TransparentBuilder_empty == [inputs |-> <<>>, vout |-> <<>>]

TransparentBuilder_add_input(tb, coin) ==
    [tb |-> [tb EXCEPT !.inputs = Append(@, coin)], res |-> Ok]

TransparentBuilder_add_output(tb, asset, value) ==
    IF value < 0 \/ value > MAX_MONEY
    THEN [tb |-> tb, res |-> Err("InvalidAmount")]
    ELSE [tb |-> [tb EXCEPT !.vout = Append(@, [asset |-> asset, value |-> value])],
          res |-> Ok]

CoinAmount(c) == Amount_from_pair(c.asset, c.value)

\* sum of the inputs less sum of the outputs; Err on overflow
TransparentBuilder_value_balance(tb) ==
    LET ins == Amount_sum(MapSeq(tb.inputs, CoinAmount))
        outs == Amount_sum(MapSeq(tb.vout, CoinAmount))
        bal == Amount_sub(ins, outs)
    IN IF ~Amount_in_range(ins) \/ ~Amount_in_range(outs) THEN [res |-> Err("Overflow"), val |-> Amount_zero]
       ELSE IF ~Amount_in_range(bal) THEN [res |-> Err("Underflow"), val |-> Amount_zero]
       ELSE [res |-> Ok, val |-> bal]

\* the bundle, or None when there is nothing transparent
TransparentBuilder_build(tb) ==
    IF tb.inputs = <<>> /\ tb.vout = <<>> THEN None
    ELSE Some([vin |-> tb.inputs, vout |-> tb.vout])

(***************************************************************************)
(* SaplingBuilder (components::sapling::builder).                          *)
(***************************************************************************)
SaplingBuilder_new ==
    [anchor |-> None, spends |-> <<>>, convert_anchor |-> None, converts |-> <<>>,
     outputs |-> <<>>]

\* the first spend fixes the anchor; a later path with another root is refused
SaplingBuilder_add_spend(sb, note, root) ==
    IF IsSome(sb.anchor) /\ sb.anchor[1] /= root
    THEN [sb |-> sb, res |-> Err("AnchorMismatch")]
    ELSE [sb |-> [sb EXCEPT !.anchor = Some(root),
                            !.spends = Append(@, [asset |-> note.asset,
                                                  value |-> note.value,
                                                  anchor |-> root])],
          res |-> Ok]

SaplingBuilder_add_convert(sb, allowed, value, root) ==
    IF IsSome(sb.convert_anchor) /\ sb.convert_anchor[1] /= root
    THEN [sb |-> sb, res |-> Err("AnchorMismatch")]
    ELSE [sb |-> [sb EXCEPT !.convert_anchor = Some(root),
                            !.converts = Append(@, [allowed |-> allowed,
                                                    value |-> value,
                                                    anchor |-> root])],
          res |-> Ok]

SaplingBuilder_add_output(sb, asset, value) ==
    IF value > MAX_MONEY
    THEN [sb |-> sb, res |-> Err("InvalidAmount")]
    ELSE [sb |-> [sb EXCEPT !.outputs = Append(@, [asset |-> asset, value |-> value])],
          res |-> Ok]

ConvertAmount(c) == Amount_scale(c.allowed, c.value)

\* spends less outputs plus the converts' effects
SaplingBuilder_value_balance(sb) ==
    Amount_add(Amount_sub(Amount_sum(MapSeq(sb.spends, CoinAmount)),
                          Amount_sum(MapSeq(sb.outputs, CoinAmount))),
               Amount_sum(MapSeq(sb.converts, ConvertAmount)))

SaplingBuilder_is_empty(sb) == sb.spends = <<>> /\ sb.converts = <<>> /\ sb.outputs = <<>>

(***************************************************************************)
(* Builder.                                                                *)
(***************************************************************************)
DEFAULT_TX_EXPIRY_DELTA == 40

\* a builder with the expiry delta of twenty blocks that the comment on new() names
Builder_new_internal_delta_20(params, rng, target_height) ==
    [params |-> params,
     rng |-> rng,
     target_height |-> target_height,
     expiry_height |-> target_height + 20,
     transparent_builder |-> TransparentBuilder_empty,
     sapling_builder |-> SaplingBuilder_new,
     progress_notifier |-> None]

Builder_new_internal(params, rng, target_height) ==
    [params |-> params,
     rng |-> rng,
     target_height |-> target_height,
     expiry_height |-> target_height + DEFAULT_TX_EXPIRY_DELTA,
     transparent_builder |-> TransparentBuilder_empty,
     sapling_builder |-> SaplingBuilder_new,
     progress_notifier |-> None]

\* a builder that forgets the spends it holds when it checks a new one
add_sapling_spend_unanchored(b, note, root) ==
    LET r == SaplingBuilder_add_spend([b.sapling_builder EXCEPT !.anchor = None],
                                      note, root)
    IN [b |-> [b EXCEPT !.sapling_builder = r.sb], res |-> r.res, delegated |-> TRUE]

\* each add_* returns the builder after the call, the call's Result, and whether
\* the call reached the sub-builder
add_sapling_spend(b, note, root) ==
    LET r == SaplingBuilder_add_spend(b.sapling_builder, note, root)
    IN [b |-> [b EXCEPT !.sapling_builder = r.sb], res |-> r.res, delegated |-> TRUE]

add_sapling_convert(b, allowed, value, root) ==
    LET r == SaplingBuilder_add_convert(b.sapling_builder, allowed, value, root)
    IN [b |-> [b EXCEPT !.sapling_builder = r.sb], res |-> r.res, delegated |-> TRUE]

add_sapling_output(b, asset, value) ==
    IF value > MAX_MONEY
    THEN [b |-> b, res |-> Err("InvalidAmount"), delegated |-> FALSE]
    ELSE LET r == SaplingBuilder_add_output(b.sapling_builder, asset, value)
         IN [b |-> [b EXCEPT !.sapling_builder = r.sb], res |-> r.res,
             delegated |-> TRUE]

add_transparent_input(b, coin) ==
    LET r == TransparentBuilder_add_input(b.transparent_builder, coin)
    IN [b |-> [b EXCEPT !.transparent_builder = r.tb], res |-> r.res, delegated |-> TRUE]

\* a builder that leaves the sign of the value to the sub-builder
add_transparent_output_upper_bound_only(b, asset, value) ==
    IF value > MAX_MONEY
    THEN [b |-> b, res |-> Err("InvalidAmount"), delegated |-> FALSE]
    ELSE LET r == TransparentBuilder_add_output(b.transparent_builder, asset, value)
         IN [b |-> [b EXCEPT !.transparent_builder = r.tb], res |-> r.res,
             delegated |-> TRUE]

add_transparent_output(b, asset, value) ==
    IF value < 0 \/ value > MAX_MONEY
    THEN [b |-> b, res |-> Err("InvalidAmount"), delegated |-> FALSE]
    ELSE LET r == TransparentBuilder_add_output(b.transparent_builder, asset, value)
         IN [b |-> [b EXCEPT !.transparent_builder = r.tb], res |-> r.res,
             delegated |-> TRUE]

with_progress_notifier(b, sender) == [b EXCEPT !.progress_notifier = Some(sender)]

\* SaplingBuilder::map_builder: the items stay, the parameters are the mapper's
SaplingBuilder_map_builder(sb, f) == sb

\* a map_builder that leaves the progress notifier behind
map_builder_without_notifier(b, f) ==
    [params |-> f.params,
     rng |-> f.rng,
     target_height |-> b.target_height,
     expiry_height |-> b.expiry_height,
     transparent_builder |-> b.transparent_builder,
     progress_notifier |-> None,
     sapling_builder |-> SaplingBuilder_map_builder(b.sapling_builder, f)]

\* f: what the mapper makes of the parameters, the rng and a notifier
map_builder(b, f) ==
    [params |-> f.params,
     rng |-> f.rng,
     target_height |-> b.target_height,
     expiry_height |-> b.expiry_height,
     transparent_builder |-> b.transparent_builder,
     progress_notifier |->
         IF IsSome(b.progress_notifier) THEN Some(f.notifier) ELSE None,
     sapling_builder |-> SaplingBuilder_map_builder(b.sapling_builder, f)]

(***************************************************************************)
(* Builder::build.  The fee rule and the prover are the caller's: the fee  *)
(* rule's answer and the prover's behaviour are inputs of the build.       *)
(***************************************************************************)
BuildResult(kind, err, amount, fee, tx) ==
    [kind |-> kind, err |-> err, amount |-> amount, fee |-> fee, tx |-> tx]

NotBuilt == BuildResult("none", "", Amount_zero, None, None)

\* a value balance that takes zero for a transparent balance that overflowed
value_balance_or_default(b) ==
    [res |-> Ok,
     val |-> Amount_add(TransparentBuilder_value_balance(b.transparent_builder).val,
                        SaplingBuilder_value_balance(b.sapling_builder))]

\* Builder::value_balance: the transparent balance, or its error, plus the
\* Sapling balance
value_balance(b) ==
    LET t == TransparentBuilder_value_balance(b.transparent_builder)
    IN IF ~t.res.ok THEN t
       ELSE [res |-> Ok,
             val |-> Amount_add(t.val, SaplingBuilder_value_balance(b.sapling_builder))]

\* the sum and the subtraction of build_internal return an Amount, not a Result:
\* whether one of them left the range of Amount
InfallibleOverflow(b, vb, fee) ==
    \/ ~Amount_in_range(SaplingBuilder_value_balance(b.sapling_builder))
    \/ ~Amount_in_range(vb)
    \/ ~Amount_in_range(Amount_sub(vb, fee))

\* a check that sees a shortfall only, not a surplus
balance_check_fails_on_shortfall(balance_after_fees) ==
    \E a \in Assets : balance_after_fees[a] < 0

\* balance_after_fees != Amount::zero()
balance_check_fails(balance_after_fees) == balance_after_fees /= Amount_zero

\* an error that carries the balance itself, not the amount still needed
insufficient_funds_unnegated(balance_after_fees, fee) ==
    BuildResult("InsufficientFunds", "", balance_after_fees, Some(fee), None)

insufficient_funds(balance_after_fees, fee) ==
    BuildResult("InsufficientFunds", "", Amount_neg(balance_after_fees), Some(fee), None)

\* SaplingBuilder::build with the given prover: no bundle for a builder that holds
\* nothing; the signature slots of the bundle are still empty
SaplingBuilder_build(sb, prover) ==
    IF SaplingBuilder_is_empty(sb) THEN [res |-> Ok, val |-> None]
    ELSE IF prover = "failing" THEN [res |-> Err("SpendProof"), val |-> None]
    ELSE [res |-> Ok,
          val |-> Some([spends |-> sb.spends,
                        converts |-> sb.converts,
                        outputs |-> sb.outputs,
                        value_balance |-> SaplingBuilder_value_balance(sb),
                        binding_sig |-> ""])]

\* Bundle::apply_signatures: the spend authorizations and the one binding signature
Bundle_apply_signatures(bundle, prover) ==
    IF prover = "mock" THEN [res |-> Err("BindingSig"), val |-> None]
    ELSE [res |-> Ok, val |-> Some([bundle EXCEPT !.binding_sig = "bindingSig"])]

\* unauthed_tx.sapling_bundle.map(|b| b.apply_signatures(..)).transpose()
apply_sapling_signatures(unauthed, prover) ==
    IF ~IsSome(unauthed) THEN [res |-> Ok, val |-> None]
    ELSE Bundle_apply_signatures(unauthed[1], prover)

\* SaplingBuilder::build, then Bundle::apply_signatures, with the given prover
sapling_bundle(b, prover) ==
    LET built == SaplingBuilder_build(b.sapling_builder, prover)
    IN IF ~built.res.ok THEN built ELSE apply_sapling_signatures(built.val, prover)

\* the Progress records SaplingBuilder::build sends when all its proofs succeed:
\* one after each spend and each output, counting up to their number
SaplingBuilder_progress(sb) ==
    [i \in 1..(Len(sb.spends) + Len(sb.outputs)) |->
        [cur |-> i, end |-> Some(Len(sb.spends) + Len(sb.outputs))]]

\* the records a failing prover lets through: it fails the first proof
SaplingBuilder_progress_until_failure(sb) == <<>>

\* a build that hands the sapling builder no notifier
progress_delivered_to_nobody(b, sent) == <<>>

\* self.progress_notifier.as_ref(): the records reach the sink the builder holds
progress_delivered(b, sent) == IF IsSome(b.progress_notifier) THEN sent ELSE <<>>

\* a build that borrows the builder and leaves its Sender alive
sink_kept_open(b) == IF IsSome(b.progress_notifier) THEN "open" ELSE "none"

\* build takes self: the builder and the Sender it holds are dropped on return
sink_after_build(b) == IF IsSome(b.progress_notifier) THEN "closed" ELSE "none"

\* a build that acquires the proving context before it checks the balance
BuildStages_context_first ==
    <<"fee", "context", "balance", "transparent", "prove", "assemble", "sighash",
      "sign", "freeze">>

\* the statements of build and build_internal, in their order
BuildStages ==
    <<"fee", "balance", "transparent", "context", "prove", "assemble", "sighash",
      "sign", "freeze">>

Reached(stage) ==
    SubSeq(BuildStages, 1, CHOOSE i \in 1..Len(BuildStages) : BuildStages[i] = stage)

\* what one build did besides returning: the stages it entered, the Progress
\* records its sink received, the sink afterwards, the prover it called (none
\* when it returned before the proving context) and what the final freeze returned
BuildRun(stage, delivered, b, prover, frozen) ==
    [stages |-> Reached(stage), delivered |-> delivered, sink |-> sink_after_build(b),
     prover |-> prover, frozen |-> frozen]

NotRun ==
    [stages |-> <<>>, delivered |-> <<>>, sink |-> "none", prover |-> "",
     frozen |-> IoErr("none", "")]

Outcome(res, run) == [res |-> res, run |-> run]

\* the wire form of the transaction build assembles: sapling-v4, the items of
\* the bundles (one opaque byte each), no joinsplits, the bundle's binding signature
authorized_tx_data(tx) ==
    LET tb == tx.transparent_bundle
        sb == tx.sapling_bundle
        bytes(items) == [i \in 1..Len(items) |-> 1]
    IN TransactionData(
         TRUE, U32(SAPLING_TX_VERSION), SAPLING_VERSION_GROUP_ID,
         IF IsSome(tb) THEN bytes(tb[1].vin) ELSE <<>>,
         IF IsSome(tb) THEN bytes(tb[1].vout) ELSE <<>>,
         U32(tx.lock_time), U32(tx.expiry_height),
         AmountZero,
         IF IsSome(sb) THEN bytes(sb[1].spends) ELSE <<>>,
         IF IsSome(sb) THEN bytes(sb[1].converts) ELSE <<>>,
         IF IsSome(sb) THEN bytes(sb[1].outputs) ELSE <<>>,
         <<>>, None, None,
         IF IsSome(sb) THEN Some(ByteArray(BINDING_SIG_LEN, 204)) ELSE None)

\* authorized_tx.freeze().unwrap()
freeze_unwrap(b, prover, fee, tx, delivered) ==
    LET frozen == freeze(authorized_tx_data(tx))
    IN Outcome(IF frozen.ok THEN BuildResult("Ok", "", Amount_zero, Some(fee), Some(tx))
               ELSE BuildResult("Panic", "freeze", Amount_zero, Some(fee), None),
               BuildRun("freeze", delivered, b, prover, frozen))

\* a build that reports a sapling failure as a transparent one
sapling_build_error_as_transparent(e, fee) ==
    BuildResult("TransparentBuild", e, Amount_zero, Some(fee), None)

\* Error::SaplingBuild, from the sapling build or from the signatures
sapling_build_error(e, fee) == BuildResult("SaplingBuild", e, Amount_zero, Some(fee), None)

\* from the transparent bundle to the frozen transaction
build_bundles(b, prover, fee) ==
    LET built == SaplingBuilder_build(b.sapling_builder, prover)
        signed == apply_sapling_signatures(built.val, prover)
        delivered == progress_delivered(b, SaplingBuilder_progress(b.sapling_builder))
    IN IF ~built.res.ok
       THEN Outcome(sapling_build_error(built.res.err, fee),
                    BuildRun("prove",
                             progress_delivered(b,
                                 SaplingBuilder_progress_until_failure(b.sapling_builder)),
                             b, prover, NotRun.frozen))
       ELSE IF ~signed.res.ok
       THEN Outcome(sapling_build_error(signed.res.err, fee),
                    BuildRun("sign", delivered, b, prover, NotRun.frozen))
       ELSE freeze_unwrap(b, prover, fee,
                          [lock_time |-> 0,
                           expiry_height |-> b.expiry_height,
                           transparent_bundle |->
                               TransparentBuilder_build(b.transparent_builder),
                           sapling_bundle |-> signed.val],
                          delivered)

build_internal(b, prover, fee, ovf) ==
    LET vb == value_balance(b)
        stopped == BuildRun("balance", <<>>, b, "", NotRun.frozen)
    IN IF ~vb.res.ok
       THEN Outcome(BuildResult("Balance", vb.res.err, Amount_zero, Some(fee), None), stopped)
       ELSE IF InfallibleOverflow(b, vb.val, fee) /\ ovf = "panic"
       THEN Outcome(BuildResult("Panic", "", Amount_zero, Some(fee), None), stopped)
       ELSE IF balance_check_fails(Amount_sub(vb.val, fee))
       THEN Outcome(insufficient_funds(Amount_sub(vb.val, fee), fee), stopped)
       ELSE build_bundles(b, prover, fee)

\* feeRes: the fee rule's Result
build(b, prover, feeRes, ovf) ==
    IF ~IsSome(feeRes)
    THEN Outcome(BuildResult("Fee", "FeeError", Amount_zero, None, None),
                 BuildRun("fee", <<>>, b, "", NotRun.frozen))
    ELSE build_internal(b, prover, feeRes[1], ovf)

(***************************************************************************)
(* The builder's state machine.                                            *)
(***************************************************************************)
VARIABLES
    bpc,      \* "building" | "done" | "off"
    builder,  \* the Builder
    last,     \* the last call on the builder: its arguments and what it returned
    result,   \* what build returned
    run,      \* what the build did besides returning
    cpc,      \* the codec: "new" | "frozen" | "written" | "read" | "off"
    data,     \* the TransactionData handed to freeze
    fres,     \* io::Result<Transaction> of data.freeze()
    wire,     \* the bytes Transaction::write produced
    rin,      \* the bytes handed to Transaction::read
    rres      \* io::Result<Transaction> of Transaction::read

builderVars == <<bpc, builder, last, result, run>>
codecVars == <<cpc, data, fres, wire, rin, rres>>
vars == <<builderVars, codecVars>>

Heights == {100, 200}
Anchors == {"rootA", "rootB"}
Values == {1, MAX_MONEY}
\* ZEC for BTC, one for one
Conversions == {[a \in Assets |-> IF a = "ZEC" THEN 0 - 1 ELSE 1]}
FeeResults ==
    {None, Some(Amount_zero), Some(Amount_from_pair("ZEC", 1)),
     Some(Amount_from_pair("BTC", 1))}
Provers == {"real", "mock", "failing"}

Call(op, asset, value, root, r) ==
    [op |-> op, asset |-> asset, value |-> value, root |-> root,
     ok |-> r.res.ok, err |-> r.res.err, delegated |-> r.delegated]

NoCall == [op |-> "new", asset |-> "", value |-> 0, root |-> "", ok |-> TRUE, err |-> "",
           delegated |-> FALSE]

ItemCount(b) ==
    Len(b.transparent_builder.inputs) + Len(b.transparent_builder.vout)
    + Len(b.sapling_builder.spends) + Len(b.sapling_builder.converts)
    + Len(b.sapling_builder.outputs)

BuilderInit ==
    /\ bpc = "building"
    /\ \E h \in Heights : builder = Builder_new_internal("TEST_NETWORK", "seed", h)
    /\ last = NoCall
    /\ result = NotBuilt
    /\ run = NotRun

BuilderOff ==
    /\ bpc = "off"
    /\ builder = <<>>
    /\ last = NoCall
    /\ result = NotBuilt
    /\ run = NotRun

CanAdd == bpc = "building" /\ ItemCount(builder) < MaxItems

AddSaplingSpend ==
    /\ CanAdd
    /\ \E asset \in Assets : \E value \in Values : \E root \in Anchors :
          LET r == add_sapling_spend(builder, [asset |-> asset, value |-> value], root)
          IN /\ builder' = r.b
             /\ last' = Call("add_sapling_spend", asset, value, root, r)
    /\ UNCHANGED <<bpc, result, run, codecVars>>

AddSaplingConvert ==
    /\ CanAdd
    /\ \E allowed \in Conversions : \E root \in Anchors :
          LET r == add_sapling_convert(builder, allowed, 1, root)
          IN /\ builder' = r.b
             /\ last' = Call("add_sapling_convert", "", 1, root, r)
    /\ UNCHANGED <<bpc, result, run, codecVars>>

AddSaplingOutput ==
    /\ CanAdd
    /\ \E asset \in Assets : \E value \in Values \cup {MAX_MONEY + 1} :
          LET r == add_sapling_output(builder, asset, value)
          IN /\ builder' = r.b
             /\ last' = Call("add_sapling_output", asset, value, "", r)
    /\ UNCHANGED <<bpc, result, run, codecVars>>

AddTransparentInput ==
    /\ CanAdd
    /\ \E asset \in Assets : \E value \in Values :
          LET r == add_transparent_input(builder, [asset |-> asset, value |-> value])
          IN /\ builder' = r.b
             /\ last' = Call("add_transparent_input", asset, value, "", r)
    /\ UNCHANGED <<bpc, result, run, codecVars>>

AddTransparentOutput ==
    /\ CanAdd
    /\ \E asset \in Assets : \E value \in Values \cup {0 - 1, MAX_MONEY + 1} :
          LET r == add_transparent_output(builder, asset, value)
          IN /\ builder' = r.b
             /\ last' = Call("add_transparent_output", asset, value, "", r)
    /\ UNCHANGED <<bpc, result, run, codecVars>>

WithProgressNotifier ==
    /\ bpc = "building"
    /\ ~IsSome(builder.progress_notifier)
    /\ builder' = with_progress_notifier(builder, "sender")
    /\ last' = [NoCall EXCEPT !.op = "with_progress_notifier"]
    /\ UNCHANGED <<bpc, result, run, codecVars>>

Mappers == {[params |-> "MAIN_NETWORK", rng |-> "seed2", notifier |-> "sender2"]}

\* map_builder, once per builder
MapBuilder ==
    /\ bpc = "building"
    /\ builder.params = "TEST_NETWORK"
    /\ \E f \in Mappers :
          /\ builder' = map_builder(builder, f)
          /\ last' = [NoCall EXCEPT !.op = "map_builder"]
    /\ UNCHANGED <<bpc, result, run, codecVars>>

Build ==
    /\ bpc = "building"
    /\ \E feeRes \in FeeResults : \E prover \in Provers : \E ovf \in {"panic", "unchecked"} :
          LET r == build(builder, prover, feeRes, ovf)
          IN result' = r.res /\ run' = r.run
    /\ bpc' = "done"
    /\ last' = [NoCall EXCEPT !.op = "build"]
    /\ UNCHANGED <<builder, codecVars>>

Next ==
    \/ AddSaplingSpend
    \/ AddSaplingConvert
    \/ AddSaplingOutput
    \/ AddTransparentInput
    \/ AddTransparentOutput
    \/ WithProgressNotifier
    \/ MapBuilder
    \/ Build

(***************************************************************************)
(* The codec's state machine: a TransactionData is frozen, the frozen      *)
(* Transaction is written, and the reader is run on the written bytes or   *)
(* on those bytes with one byte replaced.                                  *)
(***************************************************************************)

Vecs(first) == {[i \in 1..n |-> first + i - 1] : n \in 0..MaxVec}

\* a version with bit 31 set: 0x8000_0001
VersionBit31 == <<32768, 1>>

Versions == {U32(1), U32(2), U32(OVERWINTER_TX_VERSION), U32(SAPLING_TX_VERSION),
             VersionBit31}
GroupIds == {U32(0), OVERWINTER_VERSION_GROUP_ID, SAPLING_VERSION_GROUP_ID}
Pubkeys == {None, Some(ByteArray(PUBKEY_LEN, 170))}
JsSigs == {None, Some(ByteArray(JSSIG_LEN, 187))}
BindingSigs == {None, Some(ByteArray(BINDING_SIG_LEN, 204))}
TamperBytes == {239}

NoResult == IoErr("none", "")

CodecStart ==
    /\ cpc = "new"
    /\ \E ow \in BOOLEAN : \E ver \in Versions : \E vgid \in GroupIds :
       \E vin \in Vecs(1) : \E vout \in Vecs(11) : \E eh \in {U32(0), U32(9)} :
       \E vb \in {AmountZero, 1} : \E ss \in Vecs(21) : \E sc \in Vecs(31) :
       \E so \in Vecs(41) : \E js \in Vecs(51) : \E jpk \in Pubkeys :
       \E jsig \in JsSigs : \E bsig \in BindingSigs :
          data = TransactionData(ow, ver, vgid, vin, vout, U32(5), eh, vb, ss, sc, so,
                                 js, jpk, jsig, bsig)
    /\ fres = NoResult
    /\ wire = <<>>
    /\ rin = <<>>
    /\ rres = NoResult

CodecOff ==
    /\ cpc = "off"
    /\ data = <<>>
    /\ fres = NoResult
    /\ wire = <<>>
    /\ rin = <<>>
    /\ rres = NoResult

\* data.freeze()
Freeze ==
    /\ cpc = "new"
    /\ fres' = freeze(data)
    /\ cpc' = "frozen"
    /\ UNCHANGED <<data, wire, rin, rres, builderVars>>

\* tx.write(&mut wire) on the frozen transaction
Write ==
    /\ cpc = "frozen"
    /\ fres.ok
    /\ LET w == write(fres.val.data)
       IN /\ w.ok
          /\ wire' = w.val
    /\ cpc' = "written"
    /\ UNCHANGED <<data, fres, rin, rres, builderVars>>

\* Transaction::read(&mut &wire[..])
Read ==
    /\ cpc = "written"
    /\ rin' = wire
    /\ rres' = read(wire)
    /\ cpc' = "read"
    /\ UNCHANGED <<data, fres, wire, builderVars>>

Tamper(s, i, b) == [s EXCEPT ![i] = b]

\* Transaction::read on bytes that no writer produced
ReadTampered ==
    /\ cpc = "written"
    /\ \E i \in 1..MaxTamperPos, b \in TamperBytes :
          /\ i <= Len(wire)
          /\ wire[i] /= b
          /\ rin' = Tamper(wire, i, b)
          /\ rres' = read(Tamper(wire, i, b))
    /\ cpc' = "read"
    /\ UNCHANGED <<data, fres, wire, builderVars>>

CodecNext == Freeze \/ Write \/ Read \/ ReadTampered


(***************************************************************************)
(* Spec: the builder.  SpecCodec: the codec.                               *)
(***************************************************************************)
Init == BuilderInit /\ CodecOff
Spec == Init /\ [][Next]_vars

CodecInit == CodecStart /\ BuilderOff
SpecCodec == CodecInit /\ [][CodecNext]_vars

(***************************************************************************)
(* Claims about the codec, checked under SpecCodec.                        *)
(***************************************************************************)
KnownFormat(t) ==
    \/ t.version_group_id = OVERWINTER_VERSION_GROUP_ID /\ t.version = U32(3)
    \/ t.version_group_id = SAPLING_VERSION_GROUP_ID /\ t.version = U32(4)

SaplingV4(t) ==
    t.overwintered /\ t.version_group_id = SAPLING_VERSION_GROUP_ID /\ t.version = U32(4)

OverwinterV3(t) ==
    t.overwintered /\ t.version_group_id = OVERWINTER_VERSION_GROUP_ID
    /\ t.version = U32(3)

\* every field the wire does not carry holds the value the reader gives it,
\* and the version fits the 31 bits the header has for it
Canonical(t) ==
    /\ t.version[1] < 32768
    /\ ~t.overwintered => t.version_group_id = U32(0)
    /\ ~(OverwinterV3(t) \/ SaplingV4(t)) => t.expiry_height = U32(0)
    /\ ~SaplingV4(t) => /\ t.value_balance = 0
                        /\ t.shielded_spends = <<>>
                        /\ t.shielded_converts = <<>>
                        /\ t.shielded_outputs = <<>>
    /\ ~U32Ge(t.version, 2) => t.joinsplits = <<>>

ReadBack == cpc = "read" /\ rin = wire

RoundTrips == rres.ok /\ rres.val.data = data /\ rres.val.txid = fres.val.txid

\* C1 as claimed: every TransactionData that write serializes reads back equal,
\* field for field, with the txid of freeze(t).
C1_RoundTripAnyWritten == ReadBack => RoundTrips

\* C1 as amended: a TransactionData that write serializes, whose version is below
\* 2^31 and whose fields absent from its wire form hold the reader's defaults,
\* reads back equal, field for field, with the txid of freeze(t).
C1_RoundTripCanonical == (ReadBack /\ Canonical(data)) => RoundTrips

C1_Witness ==
    /\ ReadBack /\ Canonical(data) /\ RoundTrips
    /\ SaplingV4(data) /\ data.shielded_spends /= <<>> /\ data.joinsplits /= <<>>
    /\ data.vin /= <<>>

Produced == {r.val : r \in {x \in {fres, rres} : x.ok}}

\* the header and group id the reader's input announces
RinOverwintered == rin[4] >= 128
RinVersion == <<rin[3] + 256 * (rin[4] % 128), rin[1] + 256 * rin[2]>>
RinGroupId == <<rin[7] + 256 * rin[8], rin[5] + 256 * rin[6]>>
RinKnown ==
    \/ RinGroupId = OVERWINTER_VERSION_GROUP_ID /\ RinVersion = U32(3)
    \/ RinGroupId = SAPLING_VERSION_GROUP_ID /\ RinVersion = U32(4)

UnknownFormatError == InvalidInput("Unknown transaction format")

\* C2: a Transaction from read or freeze is overwintered only with a known
\* (version_group_id, version) pair; an overwintered value or input with any other
\* pair makes freeze/write and read fail with InvalidInput "Unknown transaction format".
C2_KnownFormat ==
    /\ \A tx \in Produced : tx.data.overwintered => KnownFormat(tx.data)
    /\ (cpc /= "new" /\ data.overwintered /\ ~KnownFormat(data))
          => fres = UnknownFormatError
    /\ (cpc = "read" /\ Len(rin) >= 8 /\ RinOverwintered /\ ~RinKnown)
          => rres = UnknownFormatError

C2_Witness ==
    /\ cpc = "read" /\ Len(rin) >= 8 /\ RinOverwintered /\ ~RinKnown
    /\ rres = UnknownFormatError
    /\ fres.ok /\ fres.val.data.overwintered

C2_WitnessWrite ==
    cpc = "frozen" /\ data.overwintered /\ ~KnownFormat(data) /\ fres = UnknownFormatError

JoinSplitConsistent(t) ==
    LET want == U32Ge(t.version, 2) /\ t.joinsplits /= <<>>
    IN IsSome(t.joinsplit_pubkey) = want /\ IsSome(t.joinsplit_sig) = want

BindingSigExpected(t) ==
    SaplingV4(t) /\ Len(t.shielded_spends) + Len(t.shielded_outputs) > 0

\* C3: a Transaction from read or freeze has a binding signature exactly when it
\* is sapling-v4 with a shielded spend or output; a value that violates this in
\* either direction is refused by write with InvalidInput, with the message of its
\* direction when no earlier check of the writer refuses it.
C3_BindingSigPresence ==
    /\ \A tx \in Produced : IsSome(tx.data.binding_sig) = BindingSigExpected(tx.data)
    /\ (cpc /= "new" /\ IsSome(data.binding_sig) /= BindingSigExpected(data))
          => /\ ~fres.ok
             /\ fres.kind = "InvalidInput"
             /\ ((data.overwintered => KnownFormat(data)) /\ JoinSplitConsistent(data))
                   => fres.msg = IF BindingSigExpected(data)
                                 THEN "Missing binding signature"
                                 ELSE "Binding signature should not be present"

C3_Witness ==
    /\ cpc = "read" /\ rres.ok /\ IsSome(rres.val.data.binding_sig)
    /\ rres.val.data.shielded_spends = <<>> /\ rres.val.data.shielded_outputs /= <<>>

C3_WitnessMissing ==
    cpc = "frozen" /\ BindingSigExpected(data) /\ fres = InvalidInput("Missing binding signature")

C3_WitnessUnexpected ==
    /\ cpc = "frozen" /\ ~BindingSigExpected(data) /\ data.shielded_converts /= <<>>
    /\ fres = InvalidInput("Binding signature should not be present")

\* C4: a Transaction from read or freeze has joinsplit_pubkey and joinsplit_sig
\* both set when version >= 2 and joinsplits is non-empty, and both unset
\* otherwise; write refuses with InvalidInput a key or signature set without
\* joinsplits or below version 2, and a missing one with joinsplits at version >= 2.
C4_JoinSplitConsistency ==
    /\ \A tx \in Produced : JoinSplitConsistent(tx.data)
    /\ (cpc /= "new" /\ ~JoinSplitConsistent(data))
          => /\ ~fres.ok
             /\ fres.kind = "InvalidInput"
             /\ (data.overwintered => KnownFormat(data))
                   => fres.msg \in
                        IF U32Ge(data.version, 2) /\ data.joinsplits /= <<>>
                        THEN {"Missing JoinSplit pubkey", "Missing JoinSplit signature"}
                        ELSE {"JoinSplit pubkey should not be present",
                              "JoinSplit signature should not be present"}

C4_Witness ==
    /\ cpc = "read" /\ rres.ok /\ rres.val.data.joinsplits /= <<>>
    /\ IsSome(rres.val.data.joinsplit_pubkey) /\ IsSome(rres.val.data.joinsplit_sig)

C4_WitnessRejected ==
    /\ cpc = "frozen" /\ data.version = U32(1) /\ data.joinsplits /= <<>>
    /\ fres = InvalidInput("JoinSplit signature should not be present")

(***************************************************************************)
(* Claims about the builder, checked under Spec.                           *)
(***************************************************************************)
Built == bpc = "done"

TransparentIn == Amount_sum(MapSeq(builder.transparent_builder.inputs, CoinAmount))
TransparentOut == Amount_sum(MapSeq(builder.transparent_builder.vout, CoinAmount))
SaplingBalance == SaplingBuilder_value_balance(builder.sapling_builder)

\* the fee rule answered with a fee
FeeKnown == Built /\ IsSome(result.fee)

\* transparent inputs - transparent outputs + sapling value balance - fee
BalanceAfterFees ==
    Amount_sub(Amount_add(Amount_sub(TransparentIn, TransparentOut), SaplingBalance),
               result.fee[1])

\* no sum on the way to the balance after fees leaves the range of Amount
NoOverflow ==
    /\ Amount_in_range(TransparentIn)
    /\ Amount_in_range(TransparentOut)
    /\ Amount_in_range(Amount_sub(TransparentIn, TransparentOut))
    /\ Amount_in_range(SaplingBalance)
    /\ Amount_in_range(Amount_add(Amount_sub(TransparentIn, TransparentOut), SaplingBalance))
    /\ Amount_in_range(BalanceAfterFees)

FailsInsufficient ==
    /\ result.kind = "InsufficientFunds"
    /\ result.amount = Amount_neg(BalanceAfterFees)
    /\ result.tx = None

\* C5 as claimed: after any successful add_* calls, a non-zero balance after fees
\* makes build fail with InsufficientFunds(-balance_after_fees).
C5_NonZeroBalanceFails ==
    (FeeKnown /\ BalanceAfterFees /= Amount_zero) => FailsInsufficient

\* C5 as amended: the same, provided no sum on the way to the balance after fees
\* overflows (an overflowing value balance ends the build before the check).
C5_NonZeroBalanceFailsNoOverflow ==
    (FeeKnown /\ NoOverflow /\ BalanceAfterFees /= Amount_zero) => FailsInsufficient

\* a lone output of value 1 and a fee of 1: InsufficientFunds(1 + 1)
C5_Witness ==
    /\ FeeKnown /\ NoOverflow
    /\ ItemCount(builder) = 1
    /\ builder.sapling_builder.outputs = <<[asset |-> "ZEC", value |-> 1]>>
    /\ result.fee = Some(Amount_from_pair("ZEC", 1))
    /\ result.kind = "InsufficientFunds"
    /\ result.amount = Amount_from_pair("ZEC", 2)

\* the empty builder: InsufficientFunds(fee)
C5_WitnessEmpty ==
    /\ FeeKnown /\ ItemCount(builder) = 0
    /\ result.fee = Some(Amount_from_pair("ZEC", 1))
    /\ result.kind = "InsufficientFunds"
    /\ result.amount = Amount_from_pair("ZEC", 1)

\* C6: when build returns a transaction, transparent inputs - transparent outputs
\* + sapling value balance - fee is zero for every asset.
C6_BalanceClosure ==
    result.kind = "Ok" => \A a \in Assets : BalanceAfterFees[a] = 0

\* a spend that pays exactly the fee
C6_Witness ==
    /\ result.kind = "Ok"
    /\ result.fee = Some(Amount_from_pair("ZEC", 1))
    /\ Len(builder.sapling_builder.spends) = 1
    /\ ItemCount(builder) = 1

\* a transparent input passed on to a shielded output, at no fee
C6_WitnessTransfer ==
    /\ result.kind = "Ok"
    /\ result.fee = Some(Amount_zero)
    /\ builder.transparent_builder.inputs /= <<>>
    /\ builder.sapling_builder.outputs /= <<>>

Surplus ==
    /\ \A a \in Assets : BalanceAfterFees[a] >= 0
    /\ \E a \in Assets : BalanceAfterFees[a] > 0

\* C7: inputs in excess of outputs and fee make build fail with ChangeRequired,
\* carrying the positive residual.
C7_SurplusIsChangeRequired ==
    (FeeKnown /\ NoOverflow /\ Surplus)
        => result.kind = "ChangeRequired" /\ result.amount = BalanceAfterFees

OutOfBounds(call) ==
    \/ call.op = "add_transparent_output" /\ (call.value < 0 \/ call.value > MAX_MONEY)
    \/ call.op = "add_sapling_output" /\ call.value > MAX_MONEY

\* C8: add_transparent_output with value < 0 or value > MAX_MONEY, and
\* add_sapling_output with value > MAX_MONEY, return InvalidAmount without
\* reaching the sub-builder, and the builder is as it was.
C8_AmountBound ==
    [][OutOfBounds(last')
          => /\ ~last'.ok
             /\ last'.err = "InvalidAmount"
             /\ ~last'.delegated
             /\ builder' = builder]_vars

C8_Witness ==
    /\ last.op = "add_transparent_output" /\ last.value < 0
    /\ ~last.ok /\ last.err = "InvalidAmount"
    /\ builder.transparent_builder.vout /= <<>>

C8_WitnessSapling ==
    /\ last.op = "add_sapling_output" /\ last.value > MAX_MONEY
    /\ ~last.ok /\ last.err = "InvalidAmount"
    /\ builder.sapling_builder.outputs /= <<>>

AnchorShared ==
    \A i \in 1..Len(builder.sapling_builder.spends) :
        builder.sapling_builder.spends[i].anchor = builder.sapling_builder.spends[1].anchor

\* C9: once a spend is held, add_sapling_spend with a Merkle path of another root
\* returns an error and leaves the builder as it was; all spends held share one anchor.
C9_AnchorConsistency ==
    [][/\ AnchorShared'
       /\ (/\ last'.op = "add_sapling_spend"
           /\ builder.sapling_builder.spends /= <<>>
           /\ last'.root /= builder.sapling_builder.spends[1].anchor)
             => ~last'.ok /\ builder' = builder]_vars

\* a spend is held and a spend of another root was refused
C9_Witness ==
    /\ last.op = "add_sapling_spend" /\ ~last.ok
    /\ Len(builder.sapling_builder.spends) = 1
    /\ last.root /= builder.sapling_builder.spends[1].anchor

\* two spends of one root are held
C9_WitnessShared ==
    /\ last.op = "add_sapling_spend" /\ last.ok
    /\ Len(builder.sapling_builder.spends) = 2

NotifierSet == IsSome(builder.progress_notifier)

\* the spends and outputs the builder holds
ProofCount ==
    Len(builder.sapling_builder.spends) + Len(builder.sapling_builder.outputs)

Delivered(i) == run.delivered[i]

\* every proof of the sapling build succeeded
AllProved == "assemble" \in {run.stages[i] : i \in 1..Len(run.stages)}

\* C11: with a progress notifier set, the Progress records of one build have strictly
\* increasing cur, every cur is at most spends + outputs, one record follows each
\* proved spend or output, and a successful build ends with cur = spends + outputs.
C11_ProgressMonotonic ==
    (Built /\ NotifierSet) =>
        /\ \A i \in 1..(Len(run.delivered) - 1) : Delivered(i).cur < Delivered(i + 1).cur
        /\ \A i \in 1..Len(run.delivered) : Delivered(i).cur <= ProofCount
        /\ AllProved => Len(run.delivered) = ProofCount
        /\ (result.kind = "Ok" /\ ProofCount > 0)
              => Delivered(Len(run.delivered)).cur = ProofCount

\* a spend and an output, built with a notifier set: two records, the last with cur = 2
C11_Witness ==
    /\ Built /\ NotifierSet /\ result.kind = "Ok"
    /\ builder.sapling_builder.spends /= <<>>
    /\ builder.sapling_builder.outputs /= <<>>
    /\ Len(run.delivered) = 2
    /\ Delivered(2).cur = 2

FailedBuild == result.kind \in {"Fee", "Balance", "InsufficientFunds", "SaplingBuild"}

\* C12: a failing build leaves the progress sink closed (the builder's Sender is
\* dropped); a build that fails at the fee or at the balance check has delivered no
\* Progress record.
C12_SinkClosedOnFailure ==
    (Built /\ FailedBuild) =>
        /\ run.sink /= "open"
        /\ NotifierSet => run.sink = "closed"
        /\ result.kind \in {"Fee", "Balance", "InsufficientFunds"}
              => run.delivered = <<>>

\* the mock prover: both proofs reported, then the binding signature fails
C12_Witness ==
    /\ Built /\ NotifierSet
    /\ result.kind = "SaplingBuild" /\ result.err = "BindingSig"
    /\ Len(run.delivered) = 2
    /\ run.sink = "closed"

C12_WitnessBalance ==
    /\ Built /\ NotifierSet
    /\ result.kind = "InsufficientFunds"
    /\ builder.sapling_builder.outputs /= <<>>
    /\ run.delivered = <<>>
    /\ run.sink = "closed"

ExpiryIsTargetPlus40 ==
    /\ builder.expiry_height = builder.target_height + 40
    /\ result.kind = "Ok" =>
          /\ result.tx[1].expiry_height = builder.target_height + 40
          /\ result.tx[1].lock_time = 0

TransparentOverflow ==
    \/ ~Amount_in_range(TransparentIn)
    \/ ~Amount_in_range(TransparentOut)
    \/ ~Amount_in_range(Amount_sub(TransparentIn, TransparentOut))

ReturnsBalanceError ==
    /\ result.kind = "Balance"
    /\ result.err \in {"Overflow", "Underflow"}
    /\ result.tx = None

ProverAsked == \E i \in 1..Len(run.stages) : run.stages[i] \in {"context", "prove", "sign"}

C14_WitnessInfallible ==
    /\ FeeKnown /\ ~TransparentOverflow /\ ~NoOverflow
    /\ result.kind /= "Balance"

StagesEntered == {run.stages[i] : i \in 1..Len(run.stages)}
LastStage == run.stages[Len(run.stages)]

ExactlyBalanced == FeeKnown /\ NoOverflow /\ BalanceAfterFees = Amount_zero

\* C15: with at least one shielded spend and a balance after fees of exactly zero,
\* build goes past the balance check to the sapling build and, when its proofs
\* succeed, to the binding signature; a failure of either is returned as
\* Error::SaplingBuild (BindingSig with the mock prover) and no transaction is returned.
C15_BalancedReachesBindingSig ==
    (ExactlyBalanced /\ builder.sapling_builder.spends /= <<>>) =>
        /\ {"balance", "context", "prove"} \subseteq StagesEntered
        /\ result.kind \in {"Ok", "SaplingBuild"}
        /\ result.kind = "SaplingBuild" => result.tx = None
        /\ run.prover = "real" => result.kind = "Ok" /\ "sign" \in StagesEntered
        /\ run.prover = "mock" =>
              /\ result.kind = "SaplingBuild" /\ result.err = "BindingSig"
              /\ LastStage = "sign"
        /\ run.prover = "failing" =>
              /\ result.kind = "SaplingBuild" /\ result.err = "SpendProof"
              /\ LastStage = "prove"

\* a spend that covers an output and the fee, built with the mock prover
C15_Witness ==
    /\ ExactlyBalanced
    /\ builder.sapling_builder.spends /= <<>>
    /\ builder.sapling_builder.outputs /= <<>>
    /\ run.prover = "mock"
    /\ result.kind = "SaplingBuild" /\ result.err = "BindingSig"
    /\ LastStage = "sign"

StageOrder ==
    <<"fee", "balance", "transparent", "context", "prove", "assemble", "sighash",
      "sign", "freeze">>

\* the stage at which a build with this result returned
ReturnedAt ==
    CASE result.kind = "Fee" -> {"fee"}
      [] result.kind \in {"Balance", "InsufficientFunds"} -> {"balance"}
      [] result.kind = "SaplingBuild" -> {"prove", "sign"}
      [] result.kind = "Ok" -> {"freeze"}
      [] OTHER -> {"balance", "freeze"}

ContextsAcquired == Cardinality({i \in 1..Len(run.stages) : run.stages[i] = "context"})

C16_WitnessStopped ==
    /\ Built /\ result.kind = "InsufficientFunds"
    /\ builder.sapling_builder.spends /= <<>>
    /\ run.stages = <<"fee", "balance">>
    /\ ContextsAcquired = 0

(***************************************************************************)
(* More claims about the codec, checked under SpecCodec.                   *)
(***************************************************************************)
ReadDefaults(t) ==
    /\ ~t.overwintered => t.version_group_id = U32(0)
    /\ ~(OverwinterV3(t) \/ SaplingV4(t)) => t.expiry_height = U32(0)
    /\ ~SaplingV4(t) => /\ t.value_balance = AmountZero
                        /\ t.shielded_spends = <<>>
                        /\ t.shielded_converts = <<>>
                        /\ t.shielded_outputs = <<>>
    /\ ~U32Ge(t.version, 2) => /\ t.joinsplits = <<>>
                               /\ t.joinsplit_pubkey = None
                               /\ t.joinsplit_sig = None

\* C17: a Transaction returned by read has version_group_id = 0 unless overwintered,
\* expiry_height = 0 unless overwinter-v3 or sapling-v4, a zero value balance and no
\* spends, converts or outputs unless sapling-v4, and no joinsplits, pubkey or
\* signature when version < 2.
C17_ReadDefaults == (cpc = "read" /\ rres.ok) => ReadDefaults(rres.val.data)

\* a version-1 value written with a group id, an expiry height and a spend the wire
\* does not carry: read returns the defaults
C17_Witness ==
    /\ ReadBack /\ rres.ok
    /\ ~data.overwintered /\ data.version = U32(1)
    /\ data.version_group_id /= U32(0)
    /\ data.expiry_height /= U32(0)
    /\ data.shielded_spends /= <<>>
    /\ data.joinsplits /= <<>>
    /\ ReadDefaults(rres.val.data)

\* the header as write puts it on the wire and read takes it off
HeaderOnWire == DecU32(EncU32(header(data)))

HeaderDecodesBack ==
    /\ header_overwintered(HeaderOnWire) = data.overwintered
    /\ header_version(HeaderOnWire) = data.version

\* C18 as claimed: for every overwintered flag and every 32-bit version, the header
\* write emits decodes in read to the same (overwintered, version) pair.
C18_HeaderLossless == cpc /= "new" => HeaderDecodesBack

\* C18 as amended: the same for every version below 2^31; a version with bit 31 set
\* decodes as overwintered, with the low 31 bits as its version.
C18_HeaderLossless31 ==
    cpc /= "new" =>
        /\ data.version[1] < 32768 => HeaderDecodesBack
        /\ data.version[1] >= 32768 =>
              /\ header_overwintered(HeaderOnWire)
              /\ header_version(HeaderOnWire) = <<data.version[1] - 32768, data.version[2]>>

\* a sapling-v4 transaction read back: the flag and the version came through the header
C18_Witness ==
    /\ ReadBack /\ rres.ok
    /\ data.overwintered /\ data.version = U32(SAPLING_TX_VERSION)
    /\ EncU32(header(data)) = SubSeq(rin, 1, 4)
    /\ rres.val.data.overwintered /\ rres.val.data.version = data.version

\* a version with bit 31 set and no flag: written, and read back as overwintered
C18_WitnessBit31 ==
    /\ cpc /= "new" /\ fres.ok
    /\ ~data.overwintered /\ data.version = VersionBit31
    /\ header_overwintered(HeaderOnWire)

(***************************************************************************)
(* More claims about the builder, checked under Spec.                      *)
(***************************************************************************)
ReachedFreeze == Built /\ "freeze" \in StagesEntered

ConvertsOnly ==
    /\ builder.sapling_builder.converts /= <<>>
    /\ builder.sapling_builder.spends = <<>>
    /\ builder.sapling_builder.outputs = <<>>

FreezeSucceeds ==
    /\ run.frozen.ok
    /\ result.kind = "Ok"
    /\ run.frozen.val.txid = Sha256d(write(run.frozen.val.data).val)

C19_WitnessShielded ==
    /\ ReachedFreeze /\ FreezeSucceeds
    /\ builder.sapling_builder.spends /= <<>>
    /\ builder.sapling_builder.outputs /= <<>>
    /\ IsSome(run.frozen.val.data.binding_sig)

\* a transparent input converted, the fee paid in the converted asset
C19_WitnessConvertsOnly ==
    /\ ReachedFreeze /\ ConvertsOnly
    /\ builder.transparent_builder.inputs /= <<>>
    /\ ~run.frozen.ok

\* C20: map_builder keeps target_height, expiry_height, the transparent inputs and
\* outputs, the sapling spends, converts and outputs, and the presence of a progress
\* notifier; params and rng are the mapped ones.
C20_MapBuilderPreserves ==
    [][last'.op = "map_builder" =>
          /\ builder'.target_height = builder.target_height
          /\ builder'.expiry_height = builder.expiry_height
          /\ builder'.transparent_builder.inputs = builder.transparent_builder.inputs
          /\ builder'.transparent_builder.vout = builder.transparent_builder.vout
          /\ builder'.sapling_builder.spends = builder.sapling_builder.spends
          /\ builder'.sapling_builder.converts = builder.sapling_builder.converts
          /\ builder'.sapling_builder.outputs = builder.sapling_builder.outputs
          /\ IsSome(builder'.progress_notifier) = IsSome(builder.progress_notifier)
          /\ \E f \in Mappers : builder'.params = f.params /\ builder'.rng = f.rng]_vars

\* a builder with a notifier, a spend and a transparent output, mapped
C20_Witness ==
    /\ last.op = "map_builder"
    /\ builder.params = "MAIN_NETWORK" /\ builder.rng = "seed2"
    /\ NotifierSet
    /\ builder.sapling_builder.spends /= <<>>
    /\ builder.transparent_builder.vout /= <<>>

=============================================================================
